---- MODULE Spec2Model ----
(***************************************************************************)
(* A model of ContractAnalyzer (src/contract_analyzer.py).                 *)
(*                                                                         *)
(* The analyzer object keeps four lazily filled context fields             *)
(* (creation_tx, deployer_address, creation_timestamp, total_supply) and   *)
(* offers operations that query a blockchain data provider.  Every         *)
(* provider reply is an envelope [status, result]; the replies are the     *)
(* inputs of the model and are drawn from small sets.                      *)
(*                                                                         *)
(* Representation.                                                         *)
(*  - Python None is <<>> and a present value v is <<v>>.                  *)
(*  - A DataFrame is the sequence of its rows; the DataFrame built from    *)
(*    an empty reply is <<>> and has no columns at all.                    *)
(*  - Numeric strings of the provider are written as the integers they     *)
(*    denote.  Token quantities are whole numbers of tokens; a raw         *)
(*    minor-unit quantity is [mantissa, exp10] = mantissa * 10^exp10.      *)
(*  - The percentage of supply is kept exactly, as <<whole, rem>> =        *)
(*    whole + rem / total_supply (the code computes it in float64; the     *)
(*    rounding error of float64 is not modelled).                          *)
(*  - A call is a sequence of steps, one per provider round trip; pc is    *)
(*    the position inside the running call and no other call can start     *)
(*    before the running one has returned or raised.                       *)
(***************************************************************************)
EXTENDS Integers, Sequences, FiniteSets, TLC

VARIABLES
    contract_address,    \* self.contract_address
    creation_tx,         \* self.creation_tx
    deployer_address,    \* self.deployer_address
    creation_timestamp,  \* self.creation_timestamp
    total_supply,        \* self.total_supply
    pc,                  \* position of the running call
    op,                  \* the public operation running, or last run
    time_window,         \* find_suspicious_wallets: parameter time_window
    funding_txs,         \* analyze_funding_transactions: funding_txs
    token_txs,           \* column "to" of token_txs, the contract's token transfers
    todo,                \* recipients the loop has still to visit
    wallet,              \* loop variable wallet
    wallet_txs,          \* len(wallet_txs) of the wallet being profiled
    token_txs_wallet,    \* token_txs_wallet, as [n, amount] (rows, sum of value to wallet)
    profiled,            \* per wallet the running call has profiled: whether txs is empty, the
                         \* creation time get_wallet_creation_time gave, and the
                         \* value of is_round and low_activity
    suspicious_wallets,  \* find_suspicious_wallets: suspicious_wallets
    raised,              \* exception leaving the running call
    ret                  \* value returned by the call

ctx == <<contract_address, creation_tx, deployer_address, creation_timestamp, total_supply>>
locals == <<time_window, funding_txs, token_txs, todo, wallet, wallet_txs, token_txs_wallet, profiled, suspicious_wallets>>
vars == <<ctx, pc, op, locals, raised, ret>>

-----------------------------------------------------------------------------
(* Python values *)

None == <<>>
Some(v) == <<v>>
Val(o) == o[1]

\* Python truthiness of an optional number: None and 0 are false
Falsy(o) == o = None \/ Val(o) = 0

Abs(x) == IF x < 0 THEN -x ELSE x

\* str.lower() on the addresses of the model
Lower(a) ==
    CASE a = "0xC0" -> "0xc0"
      [] a = "0xD0" -> "0xd0"
      [] a = "0xA1" -> "0xa1"
      [] a = "0xB2" -> "0xb2"
      [] OTHER -> a

RECURSIVE Pow10(_)
Pow10(n) == IF n = 0 THEN 1 ELSE 10 * Pow10(n - 1)

\* raw minor units divided by 10^decimals
Scale(raw, decimals) == raw.mantissa * Pow10(raw.exp10 - decimals)

-----------------------------------------------------------------------------
(* Bounds of the model *)

MaxTransfers == 2   \* rows of a contract-wide token transfer reply
MaxFunding == 2     \* rows of the deployer's native transaction reply

(* Program constants *)

DefaultTimeWindow == 86400 * 7
RoundTokenAmount == 1000000
LowEthTxs == 5
LowTokenTxs == 3
EthDecimals == 18


-----------------------------------------------------------------------------
(* The provider: every reply the model lets it give *)

\* the envelope of a failed request, and of a successful one carrying a result of S
Replies(S) == {[status |-> "0", result |-> <<>>]} \cup {[status |-> "1", result |-> r] : r \in S}

\* getcontractcreation: a list holding one creation record
CreationResults ==
    { <<[contractCreator |-> "0xD0", txHash |-> h]>> : h \in {"h1", "h2"} }

\* tokensupply: a non-empty string of digits, the supply in minor units
Supplies == {0, 105263053, 1000000000}
SupplyResults == { <<[mantissa |-> s, exp10 |-> EthDecimals]>> : s \in Supplies }

\* timestamps the deployer's transactions carry
DeployTimes == {1700000000 - 1, 1700000000}

\* txlist of the deployer: rows in ascending time order
FundingRows == [hash : {"h1", "h2"}, to : {"0xd0", "0xD0", "0xee"}, timeStamp : DeployTimes]
Ascending(rows) == \A i \in 1..(Len(rows) - 1) : rows[i].timeStamp <= rows[i + 1].timeStamp
SeqsUpTo(S, n) == UNION { [1..k -> S] : k \in 0..n }
DeployerTxResults == { rows \in SeqsUpTo(FundingRows, MaxFunding) : rows # <<>> /\ Ascending(rows) }

\* txlist of a recipient: n transactions, the first at time t
WalletTimes == {1700000000 - DefaultTimeWindow - 1, 1700000000 + DefaultTimeWindow}
RowsAt(n, t) == [i \in 1..n |-> [hash |-> "w", to |-> "0xee", timeStamp |-> t]]
WalletTxResults == { RowsAt(n, t) : n \in {LowEthTxs - 1, LowEthTxs}, t \in WalletTimes }

\* tokentx of the contract: the recipients, in the provider's order
Recipients == {"0xa1", "0xA1", "0xb2"}
TransferRows(tos, amounts) ==
    [to : tos, value : { [mantissa |-> a, exp10 |-> EthDecimals] : a \in amounts },
     tokenDecimal : {EthDecimals}]
ContractTransferResults == SeqsUpTo(TransferRows(Recipients, {500000}), MaxTransfers) \ {<<>>}

\* tokentx of the contract filtered to one wallet: the provider matches the
\* address whatever its case, so a row may spell the recipient either way
SwapCase(a) ==
    CASE a = "0xa1" -> "0xA1"
      [] a = "0xA1" -> "0xa1"
      [] a = "0xb2" -> "0xB2"
      [] OTHER -> a
Amounts == {500000, 999999, 10000000}
Transfer(to, amount) ==
    [to |-> to, value |-> [mantissa |-> amount, exp10 |-> EthDecimals],
     tokenDecimal |-> EthDecimals]
FurtherTransfers(w) == <<Transfer(w, 500000), Transfer(SwapCase(w), 500000)>>
WalletTransferResults(w) ==
    { <<first>> \o SubSeq(FurtherTransfers(w), 1, k) :
         first \in TransferRows({w, SwapCase(w)}, Amounts), k \in 0..(LowTokenTxs - 1) }

TimeWindows == {DefaultTimeWindow}

-----------------------------------------------------------------------------
(* Helpers of the analyzer *)

\* _make_api_request: the result when the status is "1", else an empty list
MakeApiRequest(response) == IF response.status = "1" THEN response.result ELSE <<>>

\* get_eth_transactions: the rows of the reply (timeStamp as an integer)
GetEthTransactions(response) == MakeApiRequest(response)

\* get_token_transfers: every value scaled by the decimals of the first row
GetTokenTransfers(response) ==
    LET rows == MakeApiRequest(response) IN
    IF rows = <<>> THEN <<>>
    ELSE LET decimals == rows[1].tokenDecimal IN
         [i \in DOMAIN rows |-> [to |-> rows[i].to, value |-> Scale(rows[i].value, decimals)]]

\* get_contract_creation_tx: the fields after the call and the value returned
GetContractCreationTx(response) ==
    LET result == MakeApiRequest(response) IN
    IF result # <<>>
    THEN [creation_tx |-> Some(result[1]),
          deployer_address |-> Some(result[1].contractCreator),
          ret |-> Some(result[1])]
    ELSE [creation_tx |-> creation_tx, deployer_address |-> deployer_address, ret |-> None]

\* get_token_supply: total_supply after the call
GetTokenSupply(response) ==
    LET result == MakeApiRequest(response) IN
    IF result # <<>> THEN Some(Scale(result[1], EthDecimals)) ELSE total_supply

\* a variant that gives the epoch, instead of nothing, for a wallet without transactions
GetWalletCreationTimeEpoch(rows) == IF rows # <<>> THEN Some(rows[1].timeStamp) ELSE Some(0)

\* get_wallet_creation_time: (timestamp, block) of the first row; the block is not modelled
GetWalletCreationTime(rows) == IF rows # <<>> THEN Some(rows[1].timeStamp) ELSE None

\* Series.unique(): the values in order of first appearance
RECURSIVE Unique(_)
Unique(s) ==
    IF s = <<>> THEN <<>>
    ELSE LET front == Unique(SubSeq(s, 1, Len(s) - 1))
             last == s[Len(s)]
         IN IF \E i \in DOMAIN front : front[i] = last THEN front ELSE Append(front, last)

ToColumn(df) == [i \in DOMAIN df |-> df[i].to]

\* a variant that visits every row of the column, repeated recipients included
RecipientWalletsEveryRow(df) == ToColumn(df)

\* token_txs["to"].unique(), the wallets the loops visit
RecipientWallets(df) == Unique(ToColumn(df))

\* df[df["to"] == w]["value"].sum()
RECURSIVE TokenAmount(_, _)
TokenAmount(df, w) ==
    IF df = <<>> THEN 0
    ELSE (IF Head(df).to = w THEN Head(df).value ELSE 0) + TokenAmount(Tail(df), w)

\* eth_txs[eth_txs["to"] == self.deployer_address.lower()]
FundingFilter(eth_txs, deployer) == SelectSeq(eth_txs, LAMBDA r : r.to = Lower(deployer))

\* a variant that takes every funding row for the creation transaction
CreationTxsAnyRow(funding, tx) == funding

\* the rows of funding_txs whose hash is the creation transaction's
CreationTxs(funding, tx) == SelectSeq(funding, LAMBDA r : r.hash = tx.txHash)

\* creation_timestamp after analyze_funding_transactions has looked at funding_txs
CreationTimestampFrom(funding, tx, old) ==
    IF funding # <<>> /\ tx # None /\ CreationTxs(funding, Val(tx)) # <<>>
    THEN Some(CreationTxs(funding, Val(tx))[1].timeStamp)
    ELSE old

\* (token_amount / total_supply) * 100, exactly: <<whole, rem>> is whole + rem / supply.
\* The sum of two such numbers, and one of them doubled; 100 = 64 + 32 + 4
Plus(x, y, supply) ==
    IF x[2] + y[2] >= supply
    THEN <<x[1] + y[1] + 1, x[2] + y[2] - supply>>
    ELSE <<x[1] + y[1], x[2] + y[2]>>
Twice(x, supply) == Plus(x, x, supply)
Percentage(token_amount, supply) ==
    LET x1 == <<token_amount \div supply, token_amount % supply>>
        x4 == Twice(Twice(x1, supply), supply)
        x32 == Twice(Twice(Twice(x4, supply), supply), supply)
        x64 == Twice(x32, supply)
    IN  Plus(Plus(x64, x32, supply), x4, supply)

\* round(percentage): to the nearest integer, a tie to the even one
Round(percentage, supply) ==
    IF 2 * percentage[2] < supply THEN percentage[1]
    ELSE IF 2 * percentage[2] > supply THEN percentage[1] + 1
    ELSE IF percentage[1] % 2 = 0 THEN percentage[1] ELSE percentage[1] + 1

\* abs(percentage - n) < 0.1, for an integer n
Near(percentage, n, supply) ==
    \/ percentage[1] = n /\ percentage[2] <= (supply - 1) \div 10
    \/ percentage[1] = n - 1 /\ supply - percentage[2] <= (supply - 1) \div 10

\* a variant of is_round that looks at the amount only
IsRoundAmountOnly(token_amount, percentage, supply) == token_amount >= RoundTokenAmount

\* is_round, line 283
IsRound(token_amount, percentage, supply) ==
    \/ token_amount >= RoundTokenAmount
    \/ Near(percentage, 1, supply)
    \/ Near(percentage, Round(percentage, supply), supply)

LowActivity(n_wallet_txs, n_token_txs_wallet) ==
    n_wallet_txs < LowEthTxs /\ n_token_txs_wallet < LowTokenTxs

\* a variant of the window test without abs(): wallets created early always pass
InWindowNoAbs(ct, deployed, window) ==
    ~Falsy(ct) /\ Val(ct) - deployed <= window

\* creation_time and abs(creation_time - self.creation_timestamp) <= time_window
InWindow(ct, deployed, window) ==
    ~Falsy(ct) /\ Abs(Val(ct) - deployed) <= window

\* datetime.fromtimestamp(t).strftime(...): the local time of t, as text
FormatTime(t) == [local |-> t]


-----------------------------------------------------------------------------
(* State after ContractAnalyzer(contract_address, api_key) *)

NoLocals ==
    /\ time_window = None
    /\ funding_txs = <<>>
    /\ token_txs = <<>>
    /\ todo = <<>>
    /\ wallet = None
    /\ wallet_txs = None
    /\ token_txs_wallet = None
    /\ profiled = <<>>
    /\ suspicious_wallets = <<>>

Init ==
    /\ contract_address \in {Lower(a) : a \in {"0xC0", "0xc0"}}
    /\ creation_tx = None
    /\ deployer_address = None
    /\ creation_timestamp = None
    /\ total_supply = None
    /\ pc = "idle"
    /\ op = "__init__"
    /\ raised = "none"
    /\ ret = None
    /\ NoLocals

\* the call ends: it returns value, or the exception exc leaves it
Finish(value, exc) ==
    /\ pc' = "done"
    /\ ret' = value
    /\ raised' = exc
    /\ todo' = <<>>
    /\ wallet' = None
    /\ wallet_txs' = None
    /\ token_txs_wallet' = None

-----------------------------------------------------------------------------
(* analyze_funding_transactions, lines 184-199: the fields, the frame and    *)
(* the exception it ends with, given the replies to its two requests         *)

AnalyzeFundingTransactions(cresp, tresp) ==
    LET c == IF deployer_address = None
             THEN GetContractCreationTx(cresp)
             ELSE [creation_tx |-> creation_tx, deployer_address |-> deployer_address,
                   ret |-> None]
    IN  IF c.deployer_address = None
        THEN [creation_tx |-> c.creation_tx, deployer_address |-> c.deployer_address,
              creation_timestamp |-> creation_timestamp, funding_txs |-> <<>>,
              raised |-> "none"]
        ELSE LET eth_txs == GetEthTransactions(tresp) IN
             IF eth_txs = <<>>
             THEN \* eth_txs["to"] on a frame that has no column
                  [creation_tx |-> c.creation_tx, deployer_address |-> c.deployer_address,
                   creation_timestamp |-> creation_timestamp, funding_txs |-> <<>>,
                   raised |-> "KeyError"]
             ELSE LET funding == FundingFilter(eth_txs, Val(c.deployer_address)) IN
                  [creation_tx |-> c.creation_tx, deployer_address |-> c.deployer_address,
                   creation_timestamp |->
                       CreationTimestampFrom(funding, c.creation_tx, creation_timestamp),
                   funding_txs |-> funding,
                   raised |-> "none"]

\* the replies a call of analyze_funding_transactions can read
FundingCreationReplies ==
    IF deployer_address = None THEN Replies(CreationResults)
    ELSE {[status |-> "0", result |-> <<>>]}

-----------------------------------------------------------------------------
(* The public operations that are one round trip, or two *)

CallGetContractCreationTx ==
    /\ pc = "idle"
    /\ \E response \in Replies(CreationResults) :
          LET r == GetContractCreationTx(response) IN
          /\ creation_tx' = r.creation_tx
          /\ deployer_address' = r.deployer_address
          /\ Finish(r.ret, "none")
    /\ op' = "get_contract_creation_tx"
    /\ UNCHANGED <<contract_address, creation_timestamp, total_supply, funding_txs, time_window, token_txs, profiled, suspicious_wallets>>

CallGetTokenSupply ==
    /\ pc = "idle"
    /\ \E response \in Replies(SupplyResults) :
          /\ total_supply' = GetTokenSupply(response)
          /\ Finish(IF MakeApiRequest(response) # <<>> THEN GetTokenSupply(response) ELSE None,
                    "none")
    /\ op' = "get_token_supply"
    /\ UNCHANGED <<contract_address, creation_tx, deployer_address, creation_timestamp, funding_txs, time_window, token_txs, profiled, suspicious_wallets>>

CallAnalyzeFundingTransactions ==
    /\ pc = "idle"
    /\ \E cresp \in FundingCreationReplies, tresp \in Replies(DeployerTxResults) :
          LET r == AnalyzeFundingTransactions(cresp, tresp) IN
          /\ creation_tx' = r.creation_tx
          /\ deployer_address' = r.deployer_address
          /\ creation_timestamp' = r.creation_timestamp
          /\ funding_txs' = r.funding_txs
          /\ Finish(r.funding_txs, r.raised)
    /\ op' = "analyze_funding_transactions"
    /\ UNCHANGED <<contract_address, total_supply, time_window, token_txs, profiled, suspicious_wallets>>

CallAnalyzeTokenDistribution ==
    /\ pc = "idle"
    /\ \E response \in Replies(ContractTransferResults) :
          Finish(GetTokenTransfers(response), "none")
    /\ op' = "analyze_token_distribution"
    /\ UNCHANGED <<ctx, funding_txs, time_window, token_txs, profiled, suspicious_wallets>>

-----------------------------------------------------------------------------
(* analyze_recipient_wallets, lines 228-244 *)

CallAnalyzeRecipientWallets ==
    /\ pc = "idle"
    /\ op' = "analyze_recipient_wallets"
    /\ \E response \in Replies(ContractTransferResults) :
          LET df == GetTokenTransfers(response) IN
          IF df = <<>>
          THEN Finish(<<>>, "none")
          ELSE /\ todo' = RecipientWallets(df)
               /\ pc' = "recipient_loop"
               /\ ret' = <<>>
               /\ UNCHANGED <<raised, wallet, wallet_txs, token_txs_wallet>>
    /\ UNCHANGED <<ctx, funding_txs, time_window, token_txs, profiled, suspicious_wallets>>

\* one pass of the loop: the two requests for Head(todo), stored under the wallet
RecipientWallet ==
    /\ pc = "recipient_loop"
    /\ todo # <<>>
    /\ \E eresp \in Replies(WalletTxResults), tresp \in Replies(WalletTransferResults(Head(todo))) :
          ret' = Append(ret, [wallet |-> Head(todo),
                              eth_txs |-> Len(GetEthTransactions(eresp)),
                              token_txs |-> Len(GetTokenTransfers(tresp))])
    /\ todo' = Tail(todo)
    /\ UNCHANGED <<ctx, pc, op, raised, time_window, funding_txs, token_txs, wallet, wallet_txs, token_txs_wallet, profiled, suspicious_wallets>>

RecipientReturn ==
    /\ pc = "recipient_loop"
    /\ todo = <<>>
    /\ Finish(ret, "none")
    /\ UNCHANGED <<ctx, op, funding_txs, time_window, token_txs, profiled, suspicious_wallets>>

-----------------------------------------------------------------------------
(* find_suspicious_wallets(time_window), lines 262-299 *)

\* a variant of the test of line 264 that resolves the timestamp on every call
NeedsTimestampAlways == TRUE

\* the tests of lines 262 and 264
NeedsSupply == Falsy(total_supply)
NeedsTimestamp == Falsy(creation_timestamp)

\* lines 262-263
FindSuspiciousWallets ==
    /\ pc = "idle"
    /\ op' = "find_suspicious_wallets"
    /\ \E window \in TimeWindows : time_window' = Some(window)
    /\ IF NeedsSupply
       THEN \E response \in Replies(SupplyResults) : total_supply' = GetTokenSupply(response)
       ELSE total_supply' = total_supply
    /\ pc' = "find_funding"
    /\ UNCHANGED <<contract_address, creation_tx, deployer_address, creation_timestamp, raised, ret, funding_txs, token_txs, todo, wallet, wallet_txs, token_txs_wallet, profiled, suspicious_wallets>>

\* lines 264-265
FindResolveTimestamp ==
    /\ pc = "find_funding"
    /\ IF NeedsTimestamp
       THEN \E cresp \in FundingCreationReplies, tresp \in Replies(DeployerTxResults) :
               LET r == AnalyzeFundingTransactions(cresp, tresp) IN
               /\ creation_tx' = r.creation_tx
               /\ deployer_address' = r.deployer_address
               /\ creation_timestamp' = r.creation_timestamp
               /\ funding_txs' = r.funding_txs
               /\ IF r.raised # "none"
                  THEN Finish(None, r.raised)
                  ELSE /\ pc' = "find_check"
                       /\ UNCHANGED <<raised, ret, todo, wallet, wallet_txs, token_txs_wallet>>
       ELSE /\ pc' = "find_check"
            /\ UNCHANGED <<creation_tx, deployer_address, creation_timestamp, funding_txs, raised, ret, todo, wallet, wallet_txs, token_txs_wallet>>
    /\ UNCHANGED <<contract_address, total_supply, op, time_window, token_txs, profiled, suspicious_wallets>>

\* the test of line 266
MissingData == Falsy(total_supply) \/ Falsy(creation_timestamp)

\* lines 266-267
FindCheck ==
    /\ pc = "find_check"
    /\ IF MissingData
       THEN Finish(<<>>, "none")
       ELSE /\ pc' = "find_transfers"
            /\ UNCHANGED <<raised, ret, todo, wallet, wallet_txs, token_txs_wallet>>
    /\ funding_txs' = <<>>
    /\ UNCHANGED <<ctx, op, time_window, token_txs, profiled, suspicious_wallets>>

\* lines 269-274
FindFetchTransfers ==
    /\ pc = "find_transfers"
    /\ \E response \in Replies(ContractTransferResults) :
          LET df == GetTokenTransfers(response) IN
          /\ token_txs' = ToColumn(df)
          /\ IF df = <<>>
             THEN Finish(<<>>, "none")
             ELSE /\ todo' = RecipientWallets(df)
                  /\ pc' = "find_loop"
                  /\ UNCHANGED <<raised, ret, wallet, wallet_txs, token_txs_wallet>>
    /\ UNCHANGED <<ctx, op, funding_txs, time_window, profiled, suspicious_wallets>>

\* lines 274-275: the next wallet, and its native transactions
FindFetchEth ==
    /\ pc = "find_loop"
    /\ todo # <<>>
    /\ wallet' = Some(Head(todo))
    /\ todo' = Tail(todo)
    /\ \E response \in Replies(WalletTxResults) :
          wallet_txs' = Some(Len(GetEthTransactions(response)))
    /\ pc' = "find_tokens"
    /\ UNCHANGED <<ctx, op, raised, ret, time_window, funding_txs, token_txs, token_txs_wallet, profiled, suspicious_wallets>>

\* line 276: its token transfers
FindFetchTokens ==
    /\ pc = "find_tokens"
    /\ \E response \in Replies(WalletTransferResults(Val(wallet))) :
          LET df == GetTokenTransfers(response) IN
          token_txs_wallet' = Some([n |-> Len(df), amount |-> TokenAmount(df, Val(wallet))])
    /\ pc' = "find_creation"
    /\ UNCHANGED <<ctx, op, raised, ret, time_window, funding_txs, token_txs, todo, wallet, wallet_txs, profiled, suspicious_wallets>>

\* the dictionary of lines 287-293
Finding(w, token_amount, percentage, n_wallet_txs, ct) ==
    [wallet |-> w, token_amount |-> token_amount, percentage |-> percentage,
     tx_count |-> n_wallet_txs, creation_time |-> FormatTime(ct)]

\* lines 279-293: the findings after the wallet has been scored
Scored(found, w, n_wallet_txs, tokens, ct, deployed, supply, window) ==
    IF InWindow(ct, deployed, window)
    THEN LET percentage == Percentage(tokens.amount, supply) IN
         IF IsRound(tokens.amount, percentage, supply) /\ LowActivity(n_wallet_txs, tokens.n)
         THEN Append(found, Finding(w, tokens.amount, percentage, n_wallet_txs, Val(ct)))
         ELSE found
    ELSE found

\* line 280 reads column "to" of token_txs_wallet, which an empty frame lacks
ScoreRaises(tokens, ct, deployed, window) ==
    InWindow(ct, deployed, window) /\ tokens.n = 0

\* lines 277-293: its creation time, and its score
FindScore ==
    /\ pc = "find_creation"
    /\ \E response \in Replies(WalletTxResults) :
          LET txs == GetEthTransactions(response)
              creation_time == GetWalletCreationTime(txs)
          IN
          /\ profiled' = Append(profiled,
                 [wallet |-> Val(wallet), no_txs |-> (txs = <<>>), creation_time |-> creation_time,
                  round_and_low |->
                     /\ IsRound(Val(token_txs_wallet).amount,
                                Percentage(Val(token_txs_wallet).amount, Val(total_supply)),
                                Val(total_supply))
                     /\ LowActivity(Val(wallet_txs), Val(token_txs_wallet).n)])
          /\ IF ScoreRaises(Val(token_txs_wallet), creation_time, Val(creation_timestamp),
                            Val(time_window))
             THEN /\ Finish(None, "KeyError")
                  /\ UNCHANGED suspicious_wallets
             ELSE /\ suspicious_wallets' =
                         Scored(suspicious_wallets, Val(wallet), Val(wallet_txs),
                                Val(token_txs_wallet), creation_time,
                                Val(creation_timestamp), Val(total_supply),
                                Val(time_window))
                  /\ pc' = "find_loop"
                  /\ wallet' = None
                  /\ wallet_txs' = None
                  /\ token_txs_wallet' = None
                  /\ UNCHANGED <<raised, ret, todo>>
    /\ UNCHANGED <<ctx, op, funding_txs, time_window, token_txs>>

\* lines 295-299
FindReturn ==
    /\ pc = "find_loop"
    /\ todo = <<>>
    /\ Finish(suspicious_wallets, "none")
    /\ UNCHANGED <<ctx, op, funding_txs, time_window, token_txs, profiled, suspicious_wallets>>

-----------------------------------------------------------------------------
\* the caller has the result; the analyzer keeps its context fields only
Return ==
    /\ pc = "done"
    /\ pc' = "idle"
    /\ raised' = "none"
    /\ ret' = None
    /\ funding_txs' = <<>>
    /\ profiled' = <<>>
    /\ suspicious_wallets' = <<>>
    /\ time_window' = None
    /\ token_txs' = <<>>
    /\ UNCHANGED <<ctx, op, todo, wallet, wallet_txs, token_txs_wallet>>

Next ==
    \/ CallGetContractCreationTx
    \/ CallGetTokenSupply
    \/ CallAnalyzeFundingTransactions
    \/ CallAnalyzeTokenDistribution
    \/ CallAnalyzeRecipientWallets
    \/ RecipientWallet
    \/ RecipientReturn
    \/ FindSuspiciousWallets
    \/ FindResolveTimestamp
    \/ FindCheck
    \/ FindFetchTransfers
    \/ FindFetchEth
    \/ FindFetchTokens
    \/ FindScore
    \/ FindReturn
    \/ Return

Spec == Init /\ [][Next]_vars


-----------------------------------------------------------------------------
(* Shorthands for the properties *)

Finding_ == "find_suspicious_wallets"
InFind == op = Finding_ /\ pc \notin {"idle", "recipient_loop"}

\* the wallets of a list of findings or of profiles
Wallets(list) == { list[i].wallet : i \in DOMAIN list }

\* the place of the first row of the transfer list sent to w
FirstRow(w) == CHOOSE i \in DOMAIN token_txs :
                  token_txs[i] = w /\ \A k \in 1..(i - 1) : token_txs[k] # w

\* the wallet about to be scored: what the requests of lines 275-277 told about it
ScoreTime == profiled'[Len(profiled')].creation_time
ScoreKnown == Len(profiled') = Len(profiled) + 1 /\ ScoreTime # None
ScoreDistance == Abs(Val(ScoreTime) - Val(creation_timestamp))
ScoreAmount == Val(token_txs_wallet).amount
ScorePercentage == Percentage(ScoreAmount, Val(total_supply))
ScoreRound == IsRound(ScoreAmount, ScorePercentage, Val(total_supply))
ScoreLow == LowActivity(Val(wallet_txs), Val(token_txs_wallet).n)

\* the step appended one finding, for the wallet being scored, carrying its percentage
Flagged ==
    /\ Len(suspicious_wallets') = Len(suspicious_wallets) + 1
    /\ SubSeq(suspicious_wallets', 1, Len(suspicious_wallets)) = suspicious_wallets
    /\ suspicious_wallets'[Len(suspicious_wallets')].wallet = Val(wallet)
    /\ suspicious_wallets'[Len(suspicious_wallets')].token_amount = ScoreAmount
    /\ suspicious_wallets'[Len(suspicious_wallets')].percentage = ScorePercentage

\* a percentage that reads 0.95 to two decimals (0.945 <= p < 0.955), in thousandths
IsPoint95(percentage, supply) ==
    /\ percentage[1] = 0
    /\ percentage[2] \div (supply \div 1000) \in 945..954

-----------------------------------------------------------------------------
(* C1.  In find_suspicious_wallets, once total supply and deployment         *)
(* timestamp are resolved, a recipient W whose creation time is known and    *)
(* within time_window of the deployment timestamp is in the findings if and  *)
(* only if its amount is round (amount >= 1,000,000, or |pct - 1| < 0.1, or  *)
(* |pct - round(pct)| < 0.1) and W is low-activity (fewer than 5 native and  *)
(* fewer than 3 token transactions); the finding carries pct.                *)
C1_FlaggedIffRoundAndLow ==
    [][ (pc = "find_creation" /\ ScoreKnown /\ ScoreDistance <= Val(time_window))
        => LET round == \/ ScoreAmount >= 1000000
                        \/ Near(ScorePercentage, 1, Val(total_supply))
                        \/ Near(ScorePercentage, Round(ScorePercentage, Val(total_supply)),
                                Val(total_supply))
               low == Val(wallet_txs) < 5 /\ Val(token_txs_wallet).n < 3
           IN  IF round /\ low THEN Flagged ELSE suspicious_wallets' = suspicious_wallets
      ]_vars

\* The same rule for the wallets whose scoring does not raise
C1_RuleWhenScoringCompletes ==
    [][ (pc = "find_creation" /\ ScoreKnown /\ ScoreDistance <= Val(time_window)
         /\ raised' = "none")
        => IF ScoreRound /\ ScoreLow THEN Flagged
           ELSE suspicious_wallets' = suspicious_wallets
      ]_vars

(* C2.  Provider failures and empty results never raise: every public        *)
(* operation completes and returns an empty or 'nothing found' result.       *)
C2_NeverRaises == raised = "none"

(* C3.  If total supply or deployment timestamp is still absent after        *)
(* find_suspicious_wallets has tried to resolve them, the call returns an    *)
(* empty result, raises nothing and profiles no recipient wallet.            *)
C3_NoOpWhenUnresolved ==
    (pc = "done" /\ op = Finding_ /\ MissingData)
        => (raised = "none" /\ ret = <<>> /\ profiled = <<>>)

\* What the test of line 266 does when it is reached
C3_NoOpAtCheck ==
    [][ (pc = "find_check" /\ MissingData)
        => (pc' = "done" /\ raised' = "none" /\ ret' = <<>> /\ profiled' = <<>>
            /\ UNCHANGED ctx)
      ]_vars

C5_TimestampFromCreationTx ==
    [][ creation_timestamp' # creation_timestamp
        => /\ creation_tx' # None
           /\ \E i \in DOMAIN funding_txs' :
                 /\ funding_txs'[i].hash = Val(creation_tx').txHash
                 /\ funding_txs'[i].to = Lower(Val(deployer_address'))
                 /\ creation_timestamp' = Some(funding_txs'[i].timeStamp)
      ]_vars

\* the funding rows held the creation tx and another one, and the timestamp was set
C5_Witness ==
    /\ pc = "done"
    /\ op = "analyze_funding_transactions"
    /\ creation_timestamp # None
    /\ Len(funding_txs) = 2
    /\ funding_txs[1].hash # Val(creation_tx).txHash
    /\ funding_txs[2].hash = Val(creation_tx).txHash
    /\ creation_timestamp = Some(funding_txs[2].timeStamp)

(* C6.  A recipient wallet with no native transaction has unknown creation   *)
(* time and is never among the findings, whatever amount it received.        *)
C6_UnknownCreationExcluded ==
    /\ \A i \in DOMAIN profiled : profiled[i].no_txs => profiled[i].creation_time = None
    /\ \A i \in DOMAIN profiled :
          profiled[i].creation_time = None
             => /\ profiled[i].wallet \notin Wallets(suspicious_wallets)
                /\ (pc = "done" /\ raised = "none") => profiled[i].wallet \notin Wallets(ret)

\* a call returned after profiling a wallet with no native transaction, a round
\* amount and low activity, and found another wallet
C6_Witness ==
    /\ pc = "done"
    /\ op = Finding_
    /\ raised = "none"
    /\ \E i \in DOMAIN profiled :
          /\ profiled[i].no_txs
          /\ profiled[i].round_and_low
          /\ profiled[i].wallet \notin Wallets(ret)
    /\ ret # <<>>

(* C7.  A recipient created more than time_window seconds before or after    *)
(* the deployment timestamp is never among the findings, even with a round   *)
(* amount and low activity; a distance of exactly time_window is inside.     *)
C7_Outside ==
    InFind /\ time_window # None /\ creation_timestamp # None
       => \A i \in DOMAIN profiled :
             (/\ profiled[i].creation_time # None
              /\ Abs(Val(profiled[i].creation_time) - Val(creation_timestamp))
                    > Val(time_window))
             => profiled[i].wallet \notin Wallets(suspicious_wallets)
C7_ExactlyAtWindow ==
    (pc = "find_creation" /\ ScoreKnown /\ ScoreDistance = Val(time_window)
     /\ Val(token_txs_wallet).n > 0 /\ ScoreRound /\ ScoreLow)
       => Flagged
C7_WindowExcludes == []C7_Outside /\ [][C7_ExactlyAtWindow]_vars

\* a wallet created too early, round and low-activity, has been passed over
\* and one at exactly time_window has been flagged
C7_Witness ==
    /\ pc = "done"
    /\ op = Finding_
    /\ Len(profiled) = 2
    /\ profiled[1].creation_time # None
    /\ profiled[2].creation_time # None
    /\ profiled[1].round_and_low
    /\ Val(profiled[1].creation_time) < Val(creation_timestamp) - Val(time_window)
    /\ Abs(Val(profiled[2].creation_time) - Val(creation_timestamp)) = Val(time_window)
    /\ Wallets(ret) = {profiled[2].wallet}

(* C8.  A received amount of 999,999 tokens that is 0.95% of the supply is   *)
(* not round: it fails all three sub-conditions, and the wallet is not       *)
(* flagged.                                                                  *)
C8_NotRound ==
    /\ (pc = "find_creation" /\ ScoreAmount = 999999 /\ ~Falsy(total_supply)
        /\ IsPoint95(ScorePercentage, Val(total_supply)))
          => /\ ~(ScoreAmount >= 1000000)
             /\ ~Near(ScorePercentage, 1, Val(total_supply))
             /\ ~Near(ScorePercentage, Round(ScorePercentage, Val(total_supply)),
                      Val(total_supply))
    /\ \A j \in DOMAIN suspicious_wallets :
          ~(/\ suspicious_wallets[j].token_amount = 999999
            /\ IsPoint95(suspicious_wallets[j].percentage, Val(total_supply)))

(* C8 as amended.  999,999 tokens at 0.95% of the supply fail the first      *)
(* sub-condition only (999,999 < 1,000,000); |0.95 - 1| < 0.1 and            *)
(* |0.95 - round(0.95)| < 0.1 both hold, so the amount is round, and a       *)
(* low-activity wallet inside the window that received it is flagged.        *)
C8_RoundByPercentage ==
    (pc = "find_creation" /\ ScoreAmount = 999999 /\ ~Falsy(total_supply)
     /\ IsPoint95(ScorePercentage, Val(total_supply)))
       => /\ ~(ScoreAmount >= RoundTokenAmount)
          /\ Near(ScorePercentage, 1, Val(total_supply))
          /\ Round(ScorePercentage, Val(total_supply)) = 1
          /\ ScoreRound
C8_FlaggedAtPoint95 ==
    (pc = "find_creation" /\ ScoreAmount = 999999
     /\ IsPoint95(ScorePercentage, Val(total_supply))
     /\ ScoreKnown /\ ScoreDistance <= Val(time_window) /\ ScoreLow)
       => Flagged
C8_Point95IsRound == []C8_RoundByPercentage /\ [][C8_FlaggedAtPoint95]_vars

C8_Witness ==
    /\ pc = "done"
    /\ op = Finding_
    /\ \E j \in DOMAIN ret :
          /\ ret[j].token_amount = 999999
          /\ IsPoint95(ret[j].percentage, Val(total_supply))

(* C9.  Addresses are compared without regard to case: two transfer rows     *)
(* whose recipients differ only in case are one wallet, profiled once.       *)
C9_OneWalletWhateverCase ==
    \A i, j \in DOMAIN profiled :
       i # j => Lower(profiled[i].wallet) # Lower(profiled[j].wallet)

====
